---- MODULE Spec2Model ----
(***************************************************************************)
(* Language-server coordination core of kclvm/tools/src/LSP/src/state.rs:  *)
(* the event loop (client notifications and task-bus tasks), the VFS       *)
(* change handlers (process_changed_file) and the compile jobs that        *)
(* async_compile hands to the thread pool.                                 *)
(*                                                                         *)
(* One event-loop thread handles one event at a time; every handler is one *)
(* action.  A compile job is a sequence of steps, one per lock scope or    *)
(* external call of the closure, and the steps of different jobs and the   *)
(* event-loop handlers interleave freely.                                  *)
(***************************************************************************)
EXTENDS Integers, Sequences, FiniteSets, Bags, TLC

\* ------------------------------------------------------------------ bounds
\* client notifications (didOpen / didChange / didClose) in one run
MaxEvents == 3
\* compile jobs queued or running in the thread pool at one time
MaxJobs == 2
\* tasks waiting on the task bus at one time
MaxTasks == 2
\* client messages waiting in the client channel at one time
MaxInbox == 1

\* ---------------------------------------------------------------- universe
\* fa: a file of the folder workspace W1; fx: a loose file whose discovery
\* yields the workspace Wx.
Files == {"fa", "fx"}
Workspaces == {"W1", "Wx"}
\* buffer contents: 0 compiles cleanly, 1 compiles with a diagnostic,
\* 2 makes the compile return Err (with a diagnostic)
Contents == {0, 1, 2}
NoFile == "nofile"
\* the ids the client gives its requests
ReqIds == {"r1"}

\* the workspaces lookup_compile_workspaces finds for the workspace folders
FolderWorkspaces == {"W1"}
\* opts.0 of a workspace: the files its program is loaded from
ProgFiles(w) == IF w = "W1" THEN {"fa"} ELSE {"fx"}
\* lookup_compile_workspaces(tool, filename, true) for an opened file
Discover(f) == IF f = "fa" THEN {"W1"} ELSE {"Wx"}

VARIABLES
    workspaces,           \* analysis.workspaces: WorkSpaceKind -> DBState
    opened_files,         \* FileId -> OpenFileInfo (open, workspaces)
    temporary_workspace,  \* FileId -> "Absent" | "None" | Some(workspace)
    workspace_config_cache, \* the workspaces that have cached options
    vfs,                  \* FileId -> buffer content
    jobs,                 \* the thread pool: the bag of compile jobs queued or running
    tasks,                \* the task bus (task_sender -> task_receiver)
    published,            \* per file, the last publishDiagnostics sent
    crashed,              \* the event loop panicked (unwrap on None)
    temp_failed,          \* history: files whose temporary compile returned Err
                          \* since they were last opened
    nevents,              \* client notifications handled so far
    \* --- the client channels, the request queue and the run loop
    inbox,                \* client -> server channel: messages not yet received
    client_open,          \* the client still holds the sending end of that channel
    sender_ok,            \* the client still holds the receiving end of `sender`
    run_state,            \* run(): "running", or returned "ok" / "err"
    shutdown_requested,
    incoming,             \* request_queue.incoming: the pending request ids
    reqjobs,              \* request ids a pool thread is working on
    changes,              \* the VFS pending-change list
    \* --- history
    requested,            \* request ids the client has used
    answered,             \* per request id, the responses sent to the client
    discarded,            \* ids whose Task::Response was discarded by respond
    dropped,              \* ids whose Task::Retry was dropped by handle_task
    nlogs,                \* window/logMessage notifications sent since run was entered
    send_failed,          \* some send to the client returned Err
    pushed,               \* every change appended to the VFS change list
    processed,            \* every change passed to process_changed_file by a drain
    \* --- threads and locks (lock-level specification)
    pool,                 \* per pool thread, the job it runs and the locks it holds
    main,                 \* the event loop inside process_changed_file: its
                          \* position, the change, its locals and the locks it holds
    retired               \* history: per file, the temporary workspace the last
                          \* Delete of the file took out of temporary_workspace

loopvars == <<inbox, client_open, sender_ok, run_state, shutdown_requested,
              incoming, reqjobs, changes, requested, answered, discarded,
              dropped, nlogs, send_failed, pushed, processed>>

lockvars == <<pool, main, retired>>

vars == <<workspaces, opened_files, temporary_workspace, workspace_config_cache,
          vfs, jobs, tasks, published, crashed, temp_failed, nevents, loopvars,
          lockvars>>

\* the event loop is inside run() and has not panicked
LoopRunning == run_state = "running" /\ ~crashed

\* the channels, the request queue and the VFS change list after new()
LoopInit ==
    /\ inbox = <<>> /\ client_open = TRUE /\ sender_ok = TRUE
    /\ run_state = "running" /\ shutdown_requested = FALSE
    /\ incoming = {} /\ reqjobs = {} /\ changes = <<>>
    /\ requested = {} /\ answered = [i \in ReqIds |-> 0]
    /\ discarded = {} /\ dropped = {}
    /\ nlogs = 0 /\ send_failed = FALSE
    /\ pushed = <<>> /\ processed = <<>>

\* ------------------------------------------------------------------ values
NoDb == [ws |-> "none", src |-> <<>>, diags |-> {}]
Absent == [st |-> "Absent", db |-> NoDb]
DBInit == [st |-> "Init", db |-> NoDb]
Compiling(db) == [st |-> "Compiling", db |-> db]
Ready(db) == [st |-> "Ready", db |-> db]

NoRes == [ok |-> FALSE, db |-> NoDb]
NotPublished == {<<"never", -1>>}

\* all orders in which the elements of a finite set can be iterated
RECURSIVE Orderings(_)
Orderings(S) ==
    IF S = {} THEN {<<>>}
    ELSE UNION {{<<x>> \o s : s \in Orderings(S \ {x})} : x \in S}

\* --------------------------------------------------------- compiler (external)
\* util::compile: the diagnostics and the result of compiling the files of w
\* as the VFS holds them when compile is called
CompileDiags(w, v) == {<<f, v[f]>> : f \in {g \in ProgFiles(w) : v[g] # 0}}
CompileOk(w, v) == \A f \in ProgFiles(w) : v[f] # 2
Compile(w, v) ==
    [ok |-> CompileOk(w, v),
     db |-> [ws |-> w, src |-> [f \in ProgFiles(w) |-> v[f]],
             diags |-> CompileDiags(w, v)]]

\* db.prog.get_module(&filename).is_some()
HasModule(db, f) == f \in DOMAIN db.src

\* kcl_diag_to_lsp_diags, grouped by file: the files that have diagnostics
DiagFiles(diags) == {d[1] : d \in diags}
DiagsOf(diags, f) == {d \in diags : d[1] = f}

\* ------------------------------------------------------------------- tasks
Notify(f, diags) == [type |-> "Notify", file |-> f, kind |-> "-", diags |-> diags]
ChangedFile(f, kind) == [type |-> "ChangedFile", file |-> f, kind |-> kind, diags |-> {}]

\* ------------------------------------------------------------ async_compile
\* the job async_compile hands to the thread pool
NewJob(w, fid, temp) ==
    [ws |-> w, fid |-> fid, temp |-> temp, pc |-> "queued", old |-> {}, res |-> NoRes]

\* workspace_config_cache.insert(workspace, opts) (before thread_pool.execute)
CacheInsertSkipped(cache, ws) == cache
CacheInsert(cache, ws) == cache \cup ws

\* ---------------------------------------------------- process_changed_file
\* Each handler is a function of the state it reads: the new maps, the jobs it
\* enqueues, the tasks it posts and whether it panics.
Effect(ws, of, tw, cache, newjobs, newtasks, crash) ==
    [workspaces |-> ws, opened_files |-> of, temporary_workspace |-> tw,
     cache |-> cache, jobs |-> newjobs, tasks |-> newtasks, crash |-> crash]

\* ChangeKind::Create.  The registry read guard is held for the whole handler,
\* so no job writes the registry inside it.
ReadyOwners(ws, f) == {w \in Workspaces : ws[w].st = "Ready" /\ HasModule(ws[w].db, f)}
Busy(ws) == {w \in Workspaces : ws[w].st \in {"Compiling", "Init"}}

CreateEffects(ws, of, tw, cache, f) ==
    LET owners == ReadyOwners(ws, f)
        nretry == Cardinality(Busy(ws))
        retryTasks == [k \in 1..nretry |-> ChangedFile(f, "Create")]
    IN  IF owners # {} /\ ~of[f].open
        THEN {Effect(ws, of, tw, cache, EmptyBag, <<>>, TRUE)}
        ELSE IF owners # {}
        THEN {Effect(ws,
                     [of EXCEPT ![f].workspaces = @ \cup owners],
                     [tw EXCEPT ![f] = "Absent"],
                     cache, EmptyBag, retryTasks, FALSE)}
        ELSE {Effect(ws, of,
                     [tw EXCEPT ![f] = "Absent"],
                     CacheInsert(cache, Discover(f)),
                     SetToBag({NewJob(w, f, TRUE) : w \in Discover(f)}),
                     retryTasks, FALSE)}

\* ChangeKind::Modify
ModifyEffectsNothing(ws, of, tw, cache, f) ==
    {Effect(ws, of, tw, cache, EmptyBag, <<>>, FALSE)}
ModifyEffects(ws, of, tw, cache, f) ==
    IF ~of[f].open
    THEN {Effect(ws, of, tw, cache, EmptyBag, <<>>, TRUE)}
    ELSE IF of[f].workspaces # {}
    THEN IF of[f].workspaces \subseteq cache
         THEN {Effect(ws, of, tw, CacheInsert(cache, of[f].workspaces),
                      SetToBag({NewJob(w, f, FALSE) : w \in of[f].workspaces}),
                      <<>>, FALSE)}
         ELSE {Effect(ws, of, tw, cache, EmptyBag, <<>>, TRUE)}
    ELSE IF tw[f] = "None"
    THEN {Effect(ws, of, tw, cache, EmptyBag, <<ChangedFile(f, "Modify")>>, FALSE)}
    ELSE IF tw[f] = "Absent"
    THEN {Effect(ws, of, tw, cache, EmptyBag, <<>>, FALSE)}
    ELSE IF tw[f] \in cache
    THEN {Effect(ws, of, tw, CacheInsert(cache, {tw[f]}),
                 SetToBag({NewJob(tw[f], f, TRUE)}), <<>>, FALSE)}
    ELSE {Effect(ws, of, tw, cache, EmptyBag, <<>>, TRUE)}

\* ChangeKind::Delete
DeleteEffectsEntryOnly(ws, of, tw, cache, f) ==
    {Effect(ws, of, [tw EXCEPT ![f] = "Absent"], cache, EmptyBag, <<>>, FALSE)}
DeleteEffects(ws, of, tw, cache, f) ==
    IF tw[f] = "Absent"
    THEN {Effect(ws, of, tw, cache, EmptyBag, <<>>, FALSE)}
    ELSE IF tw[f] = "None"
    THEN {Effect(ws, of, [tw EXCEPT ![f] = "Absent"], cache, EmptyBag, <<>>, FALSE)}
    ELSE {Effect([ws EXCEPT ![tw[f]] = Absent], of,
                 [tw EXCEPT ![f] = "Absent"], cache, EmptyBag, <<>>, FALSE)}

ChangedFileEffects(ws, of, tw, cache, f, kind) ==
    IF kind = "Create" THEN CreateEffects(ws, of, tw, cache, f)
    ELSE IF kind = "Modify" THEN ModifyEffects(ws, of, tw, cache, f)
    ELSE DeleteEffects(ws, of, tw, cache, f)

\* how often the handler calls lookup_compile_workspaces: only Create does,
\* when no Ready workspace holds the file
LookupCalls(ws, of, f, kind) ==
    IF kind = "Create" /\ ReadyOwners(ws, f) = {} THEN 1 ELSE 0

\* process_changed_file as a step of the event loop: `of` is opened_files as
\* the notification handler left it, `rest` the task bus without the task
\* being handled.
ProcessChangedFile(of, rest, f, kind) ==
    \E e \in ChangedFileEffects(workspaces, of, temporary_workspace,
                                workspace_config_cache, f, kind) :
        IF e.crash
        THEN /\ crashed' = TRUE
             /\ tasks' = rest
             /\ opened_files' = of
             /\ UNCHANGED <<workspaces, temporary_workspace,
                            workspace_config_cache, jobs>>
        ELSE /\ BagCardinality(jobs) + BagCardinality(e.jobs) <= MaxJobs
             /\ Len(rest) + Len(e.tasks) <= MaxTasks
             /\ workspaces' = e.workspaces
             /\ opened_files' = e.opened_files
             /\ temporary_workspace' = e.temporary_workspace
             /\ workspace_config_cache' = e.cache
             /\ jobs' = jobs (+) e.jobs
             /\ tasks' = rest \o e.tasks
             /\ UNCHANGED crashed

\* ------------------------------------------------------- client notifications
\* what the didOpen / didClose notification handlers do to opened_files before
\* the VFS changes are drained
OnDidOpen(of, f) == [of EXCEPT ![f] = [open |-> TRUE, workspaces |-> {}]]
OnDidClose(of, f) == [of EXCEPT ![f] = [open |-> FALSE, workspaces |-> {}]]

\* textDocument/didOpen, then process_vfs_changes (one Create change)
DidOpen(f) ==
    /\ LoopRunning /\ nevents < MaxEvents
    /\ ~opened_files[f].open
    /\ nevents' = nevents + 1
    /\ ProcessChangedFile(OnDidOpen(opened_files, f), tasks, f, "Create")
    /\ temp_failed' = temp_failed \ {f}
    /\ UNCHANGED <<vfs, published, loopvars, lockvars>>

\* textDocument/didChange, then process_vfs_changes (one Modify change)
DidChange(f, c) ==
    /\ LoopRunning /\ nevents < MaxEvents
    /\ opened_files[f].open
    /\ c # vfs[f]
    /\ nevents' = nevents + 1
    /\ vfs' = [vfs EXCEPT ![f] = c]
    /\ ProcessChangedFile(opened_files, tasks, f, "Modify")
    /\ UNCHANGED <<published, temp_failed, loopvars, lockvars>>

\* textDocument/didClose, then process_vfs_changes (one Delete change)
DidClose(f) ==
    /\ LoopRunning /\ nevents < MaxEvents
    /\ opened_files[f].open
    /\ nevents' = nevents + 1
    /\ ProcessChangedFile(OnDidClose(opened_files, f), tasks, f, "Delete")
    /\ UNCHANGED <<vfs, published, temp_failed, loopvars, lockvars>>

\* ------------------------------------------------------------- handle_task
\* send(message): sender.send fails exactly when the client has dropped the
\* receiving end
SendOk(alive) == alive

\* Task::Notify: the notification is sent to the client; the Result of send
\* is not looked at
HandleNotify ==
    /\ LoopRunning
    /\ tasks # <<>> /\ Head(tasks).type = "Notify"
    /\ published' = IF SendOk(sender_ok)
                     THEN [published EXCEPT ![Head(tasks).file] = Head(tasks).diags]
                     ELSE published
    /\ send_failed' = (send_failed \/ ~SendOk(sender_ok))
    /\ tasks' = Tail(tasks)
    /\ UNCHANGED <<workspaces, opened_files, temporary_workspace,
                   workspace_config_cache, vfs, jobs, crashed, temp_failed, nevents>>
    /\ UNCHANGED <<inbox, client_open, sender_ok, run_state, shutdown_requested,
                   incoming, reqjobs, changes, requested, answered, discarded,
                   dropped, nlogs, pushed, processed>>
    /\ UNCHANGED lockvars

\* Task::ChangedFile: sleep 20 ms, then process_changed_file
HandleChangedFile ==
    /\ LoopRunning
    /\ tasks # <<>> /\ Head(tasks).type = "ChangedFile"
    /\ ProcessChangedFile(opened_files, Tail(tasks), Head(tasks).file, Head(tasks).kind)
    /\ UNCHANGED <<vfs, published, temp_failed, nevents, loopvars, lockvars>>

\* ------------------------------------------------------------- compile job
\* old_diags: the diagnostics of the registry entry read at job start
OldDiags(state) == IF state.st \in {"Ready", "Compiling"} THEN state.db.diags ELSE {}

\* the start transition written under the registry write lock
StartTransitionInit(state) == DBInit
StartTransition(state) ==
    IF state.st = "Ready" THEN Compiling(state.db)
    ELSE IF state.st = "Compiling" THEN Compiling(state.db)
    ELSE DBInit

\* the files the job publishes for, each with the diagnostics it publishes
PublicationsNewOnly(old, new) == {Notify(f, DiagsOf(new, f)) : f \in DiagFiles(new)}
Publications(old, new) ==
    {Notify(f, {}) : f \in DiagFiles(old) \ DiagFiles(new)}
        \cup {Notify(f, DiagsOf(new, f)) : f \in DiagFiles(new)}

\* the registry entry written at the end of the job
InstallStateErrKept(res) == IF res.ok THEN Ready(res.db) ELSE DBInit
InstallStateNoDb(res) == IF res.ok THEN Ready(NoDb) ELSE Absent
InstallState(res) == IF res.ok THEN Ready(res.db) ELSE Absent

\* the Err branch's temporary_workspace write (under the registry write lock)
ErrTemporaryKept(tw, job) == tw
ErrTemporary(tw, job) ==
    IF job.temp /\ job.fid # NoFile THEN [tw EXCEPT ![job.fid] = "Absent"] ELSE tw

\* the Ok branch's temporary_workspace write (its own lock scope)
OkTemporarySkipped(tw, job) == tw
OkTemporary(tw, job) == [tw EXCEPT ![job.fid] = job.ws]

\* a job of the pool moves on (j -> k) or ends
SetJob(j, k) == jobs' = (jobs (-) SetToBag({j})) (+) SetToBag({k})
EndJob(j) == jobs' = jobs (-) SetToBag({j})

JobReadOld(j) ==
    /\ LoopRunning /\ j.pc = "queued"
    /\ SetJob(j, [j EXCEPT !.pc = "start", !.old = OldDiags(workspaces[j.ws])])
    /\ UNCHANGED <<workspaces, opened_files, temporary_workspace,
                   workspace_config_cache, vfs, tasks, published, crashed, temp_failed, nevents, loopvars, lockvars>>

JobStart(j) ==
    /\ LoopRunning /\ j.pc = "start"
    /\ workspaces' = [workspaces EXCEPT ![j.ws] = StartTransition(@)]
    /\ SetJob(j, [j EXCEPT !.pc = "compile"])
    /\ UNCHANGED <<opened_files, temporary_workspace, workspace_config_cache,
                   vfs, tasks, published, crashed, temp_failed, nevents, loopvars, lockvars>>

JobCompile(j) ==
    /\ LoopRunning /\ j.pc = "compile"
    /\ SetJob(j, [j EXCEPT !.pc = "publish", !.res = Compile(j.ws, vfs)])
    /\ UNCHANGED <<workspaces, opened_files, temporary_workspace,
                   workspace_config_cache, vfs, tasks, published, crashed, temp_failed, nevents, loopvars, lockvars>>

JobPublish(j) ==
    /\ LoopRunning /\ j.pc = "publish"
    /\ \E order \in Orderings(Publications(j.old, j.res.db.diags)) :
        /\ Len(tasks) + Len(order) <= MaxTasks
        /\ tasks' = tasks \o order
    /\ SetJob(j, [j EXCEPT !.pc = "install"])
    /\ UNCHANGED <<workspaces, opened_files, temporary_workspace,
                   workspace_config_cache, vfs, published, crashed, temp_failed, nevents, loopvars, lockvars>>

JobInstall(j) ==
    /\ LoopRunning /\ j.pc = "install"
    /\ workspaces' = [workspaces EXCEPT ![j.ws] = InstallState(j.res)]
    /\ IF j.res.ok
       THEN /\ IF j.temp /\ j.fid # NoFile
               THEN SetJob(j, [j EXCEPT !.pc = "temp"])
               ELSE EndJob(j)
            /\ UNCHANGED <<temporary_workspace, temp_failed>>
       ELSE /\ temporary_workspace' = ErrTemporary(temporary_workspace, j)
            /\ temp_failed' = IF j.temp /\ j.fid # NoFile
                              THEN temp_failed \cup {j.fid} ELSE temp_failed
            /\ EndJob(j)
    /\ UNCHANGED <<opened_files, workspace_config_cache, vfs, tasks, published,
                   crashed, nevents, loopvars, lockvars>>

JobTemporary(j) ==
    /\ LoopRunning /\ j.pc = "temp"
    /\ temporary_workspace' = OkTemporary(temporary_workspace, j)
    /\ EndJob(j)
    /\ UNCHANGED <<workspaces, opened_files, workspace_config_cache, vfs, tasks,
                   published, crashed, temp_failed, nevents, loopvars, lockvars>>

\* ------------------------------------------------- client messages, run loop
Request(id, method) == [kind |-> "Request", method |-> method, arg |-> id]
Notification(method, arg) == [kind |-> "Notification", method |-> method, arg |-> arg]
\* notification.method == Exit::METHOD
IsExitNever(msg) == FALSE
IsExit(msg) == msg.kind = "Notification" /\ msg.method = "exit"

Response(id) == [type |-> "Response", id |-> id]
Retry(id) == [type |-> "Retry", id |-> id]
Change(f, kind) == [file |-> f, kind |-> kind]

\* request_queue.incoming: register / complete / is_completed
Register(inc, id) == inc \cup {id}
IsPendingAlways(inc, id) == TRUE
IsPending(inc, id) == id \in inc
Complete(inc, id) == inc \ {id}
IsCompletedNever(inc, id) == FALSE
IsCompleted(inc, id) == id \notin inc

\* vfs.take_changes(): the whole pending list is taken and the list is left empty
TakeChangesKept(q) == [taken |-> q, left |-> q]
TakeChanges(q) == [taken |-> q, left |-> <<>>]

\* the for loop of process_vfs_changes: process_changed_file on each taken
\* change in order; n counts the changes passed to it
RECURSIVE ProcessAll(_, _, _)
ProcessAll(e, q, n) ==
    IF q = <<>> \/ e.crash THEN [e |-> e, n |-> n]
    ELSE LET c == Head(q)
             x == CHOOSE y \in ChangedFileEffects(e.workspaces, e.opened_files,
                                 e.temporary_workspace, e.cache, c.file, c.kind) : TRUE
         IN  ProcessAll(Effect(x.workspaces, x.opened_files, x.temporary_workspace,
                               x.cache, e.jobs (+) x.jobs, e.tasks \o x.tasks, x.crash),
                        Tail(q), n + 1)

\* process_vfs_changes at the end of handle_event: `of` is opened_files as the
\* handler left it, `rest` the task bus, `q` the VFS change list
ProcessVfsChanges(of, rest, q) ==
    LET t == TakeChanges(q)
        r == ProcessAll(Effect(workspaces, of, temporary_workspace,
                               workspace_config_cache, EmptyBag, <<>>, FALSE),
                        t.taken, 0)
    IN  /\ changes' = t.left
        /\ processed' = processed \o SubSeq(t.taken, 1, r.n)
        /\ IF r.e.crash
           THEN /\ crashed' = TRUE
                /\ tasks' = rest
                /\ opened_files' = of
                /\ UNCHANGED <<workspaces, temporary_workspace,
                               workspace_config_cache, jobs>>
           ELSE /\ BagCardinality(jobs) + BagCardinality(r.e.jobs) <= MaxJobs
                /\ Len(rest) + Len(r.e.tasks) <= MaxTasks
                /\ workspaces' = r.e.workspaces
                /\ opened_files' = r.e.opened_files
                /\ temporary_workspace' = r.e.temporary_workspace
                /\ workspace_config_cache' = r.e.cache
                /\ jobs' = jobs (+) r.e.jobs
                /\ tasks' = rest \o r.e.tasks
                /\ UNCHANGED crashed

\* respond(response): complete(id), and only if the id was pending send the
\* response (an Err of send is returned) and then log the elapsed time
Respond(inc, id) ==
    IF IsPending(inc, id)
    THEN /\ incoming' = Complete(inc, id)
         /\ IF SendOk(sender_ok)
            THEN /\ answered' = [answered EXCEPT ![id] = @ + 1]
                 /\ nlogs' = nlogs + 1
                 /\ UNCHANGED <<send_failed, run_state>>
            ELSE /\ send_failed' = TRUE
                 /\ run_state' = "err"
                 /\ UNCHANGED <<answered, nlogs>>
         /\ UNCHANGED discarded
    ELSE /\ discarded' = discarded \cup {id}
         /\ incoming' = inc
         /\ UNCHANGED <<answered, nlogs, send_failed, run_state>>
\* respond returned Err
RespondFails(inc, id) == IsPending(inc, id) /\ ~SendOk(sender_ok)

\* the event leaves everything process_changed_file writes as it is: the drain
\* after it finds what the VFS change list holds
DrainOnly(rest) == ProcessVfsChanges(opened_files, rest, changes)
\* handle_event returned Err before process_vfs_changes
NoDrain(rest) ==
    /\ tasks' = rest
    /\ UNCHANGED <<workspaces, opened_files, temporary_workspace,
                   workspace_config_cache, jobs, crashed, changes, processed>>

\* the client sends a message; the file it opens and closes is the folder file
LoopFiles == {"fa"}
ClientMessages ==
    {Request(id, m) : id \in ReqIds \ requested, m \in {"hover", "shutdown"}}
        \cup {Notification("cancel", id) : id \in requested}
        \cup {Notification("exit", "-")}
        \cup {Notification("didOpen", f) : f \in {g \in LoopFiles : ~opened_files[g].open}}
        \cup {Notification("didClose", f) : f \in {g \in LoopFiles : opened_files[g].open}}
ClientSends(msg) ==
    /\ LoopRunning /\ client_open /\ nevents < MaxEvents /\ Len(inbox) < MaxInbox
    /\ inbox' = Append(inbox, msg)
    /\ nevents' = nevents + 1
    /\ requested' = IF msg.kind = "Request" THEN requested \cup {msg.arg} ELSE requested
    /\ UNCHANGED <<workspaces, opened_files, temporary_workspace, workspace_config_cache,
                   vfs, jobs, tasks, published, crashed, temp_failed>>
    /\ UNCHANGED <<client_open, sender_ok, run_state, shutdown_requested, incoming,
                   reqjobs, changes, answered, discarded, dropped, nlogs,
                   send_failed, pushed, processed>>
    /\ UNCHANGED lockvars
\* the client drops the sending end of its channel
ClientCloses ==
    /\ LoopRunning /\ client_open
    /\ client_open' = FALSE
    /\ UNCHANGED <<workspaces, opened_files, temporary_workspace, workspace_config_cache,
                   vfs, jobs, tasks, published, crashed, temp_failed, nevents>>
    /\ UNCHANGED <<inbox, sender_ok, run_state, shutdown_requested, incoming,
                   reqjobs, changes, requested, answered, discarded, dropped, nlogs,
                   send_failed, pushed, processed>>
    /\ UNCHANGED lockvars
\* the client drops the receiving end of the server's sender
ClientGone ==
    /\ LoopRunning /\ sender_ok
    /\ sender_ok' = FALSE
    /\ UNCHANGED <<workspaces, opened_files, temporary_workspace, workspace_config_cache,
                   vfs, jobs, tasks, published, crashed, temp_failed, nevents>>
    /\ UNCHANGED <<inbox, client_open, run_state, shutdown_requested, incoming,
                   reqjobs, changes, requested, answered, discarded, dropped, nlogs,
                   send_failed, pushed, processed>>
    /\ UNCHANGED lockvars

\* on_request(req): register_request, then the handler responds at once or
\* hands the request to a pool thread; shutdown sets shutdown_requested and is
\* answered at once.  `rest` is the task bus after the event was taken.
OnRequestHandled(id, method, rest) ==
    \/ /\ Respond(Register(incoming, id), id)
       /\ shutdown_requested' = (shutdown_requested \/ method = "shutdown")
       /\ UNCHANGED reqjobs
       /\ IF RespondFails(Register(incoming, id), id) THEN NoDrain(rest) ELSE DrainOnly(rest)
    \/ /\ method # "shutdown"
       /\ incoming' = Register(incoming, id)
       /\ reqjobs' = reqjobs \cup {id}
       /\ UNCHANGED <<answered, nlogs, send_failed, run_state, discarded,
                      shutdown_requested>>
       /\ DrainOnly(rest)

\* run: the Exit notification ends the loop before handle_event
RunExit ==
    /\ LoopRunning
    /\ inbox # <<>> /\ IsExit(Head(inbox))
    /\ inbox' = Tail(inbox)
    /\ run_state' = "ok"
    /\ UNCHANGED <<workspaces, opened_files, temporary_workspace, workspace_config_cache,
                   vfs, jobs, tasks, published, crashed, temp_failed, nevents>>
    /\ UNCHANGED <<client_open, sender_ok, shutdown_requested, incoming, reqjobs,
                   changes, requested, answered, discarded, dropped, nlogs,
                   send_failed, pushed, processed>>
    /\ UNCHANGED lockvars

\* run: next_event returns None when the client channel is empty and closed
RunClosed ==
    /\ LoopRunning
    /\ inbox = <<>> /\ ~client_open
    /\ run_state' = "ok"
    /\ UNCHANGED <<workspaces, opened_files, temporary_workspace, workspace_config_cache,
                   vfs, jobs, tasks, published, crashed, temp_failed, nevents>>
    /\ UNCHANGED <<inbox, client_open, sender_ok, shutdown_requested, incoming, reqjobs,
                   changes, requested, answered, discarded, dropped, nlogs,
                   send_failed, pushed, processed>>
    /\ UNCHANGED lockvars

\* handle_event(Lsp(Request))
OnRequest ==
    /\ LoopRunning
    /\ inbox # <<>> /\ ~IsExit(Head(inbox)) /\ Head(inbox).kind = "Request"
    /\ inbox' = Tail(inbox)
    /\ OnRequestHandled(Head(inbox).arg, Head(inbox).method, tasks)
    /\ UNCHANGED <<vfs, published, temp_failed, nevents, client_open, sender_ok,
                   requested, dropped, pushed>>
    /\ UNCHANGED lockvars

\* handle_event(Lsp(Notification)): cancel completes the request in the queue;
\* didOpen / didClose update opened_files and the VFS, whose change is drained
OnNotification ==
    /\ LoopRunning
    /\ inbox # <<>> /\ ~IsExit(Head(inbox)) /\ Head(inbox).kind = "Notification"
    /\ inbox' = Tail(inbox)
    /\ LET m == Head(inbox).method
           a == Head(inbox).arg
       IN  IF m = "didOpen"
           THEN /\ ProcessVfsChanges(OnDidOpen(opened_files, a), tasks,
                                     Append(changes, Change(a, "Create")))
                /\ pushed' = Append(pushed, Change(a, "Create"))
                /\ temp_failed' = temp_failed \ {a}
                /\ UNCHANGED incoming
           ELSE IF m = "didClose"
           THEN /\ ProcessVfsChanges(OnDidClose(opened_files, a), tasks,
                                     Append(changes, Change(a, "Delete")))
                /\ pushed' = Append(pushed, Change(a, "Delete"))
                /\ UNCHANGED <<temp_failed, incoming>>
           ELSE /\ incoming' = IF m = "cancel" THEN Complete(incoming, a) ELSE incoming
                /\ DrainOnly(tasks)
                /\ UNCHANGED <<temp_failed, pushed>>
    /\ UNCHANGED <<vfs, published, nevents, client_open, sender_ok, run_state,
                   shutdown_requested, reqjobs, requested, answered, discarded,
                   dropped, nlogs, send_failed>>
    /\ UNCHANGED lockvars

\* handle_task(Task::Response)
HandleResponse ==
    /\ LoopRunning
    /\ tasks # <<>> /\ Head(tasks).type = "Response"
    /\ Respond(incoming, Head(tasks).id)
    /\ IF RespondFails(incoming, Head(tasks).id)
       THEN NoDrain(Tail(tasks)) ELSE DrainOnly(Tail(tasks))
    /\ UNCHANGED <<vfs, published, temp_failed, nevents, inbox, client_open, sender_ok,
                   shutdown_requested, reqjobs, requested, dropped, pushed>>
    /\ UNCHANGED lockvars

\* handle_task(Task::Retry): only a request that is not completed is handled
\* again (after a 20 ms sleep)
HandleRetry ==
    /\ LoopRunning
    /\ tasks # <<>> /\ Head(tasks).type = "Retry"
    /\ IF ~IsCompleted(incoming, Head(tasks).id)
       THEN /\ OnRequestHandled(Head(tasks).id, "hover", Tail(tasks))
            /\ UNCHANGED dropped
       ELSE /\ dropped' = dropped \cup {Head(tasks).id}
            /\ DrainOnly(Tail(tasks))
            /\ UNCHANGED <<incoming, reqjobs, answered, nlogs, send_failed, run_state,
                           discarded, shutdown_requested>>
    /\ UNCHANGED <<vfs, published, temp_failed, nevents, inbox, client_open, sender_ok,
                   requested, pushed>>
    /\ UNCHANGED lockvars

\* a pool thread working on a request posts its result, or asks for a retry
WorkerPosts(id, task) ==
    /\ LoopRunning
    /\ id \in reqjobs
    /\ Len(tasks) < MaxTasks
    /\ reqjobs' = reqjobs \ {id}
    /\ tasks' = Append(tasks, task)
    /\ UNCHANGED <<workspaces, opened_files, temporary_workspace, workspace_config_cache,
                   vfs, jobs, published, crashed, temp_failed, nevents>>
    /\ UNCHANGED <<inbox, client_open, sender_ok, run_state, shutdown_requested,
                   incoming, changes, requested, answered, discarded, dropped, nlogs,
                   send_failed, pushed, processed>>
    /\ UNCHANGED lockvars
WorkerResponds(id) == WorkerPosts(id, Response(id))
WorkerRetries(id) == WorkerPosts(id, Retry(id))

\* ------------------------------------------------------------ threads, locks
\* The reader/writer locks of the maps (parking_lot::RwLock, one per map) and
\* the threads that take them: the event loop and the threads of the pool.
Workers == {"t1", "t2"}
Threads == {"main"} \cup Workers
Locks == {"workspaces", "opened_files", "temporary_workspace", "workspace_config_cache"}

\* a pool thread with no job
Idle == [ws |-> "none", fid |-> NoFile, temp |-> FALSE, pc |-> "idle", old |-> {}, res |-> NoRes]
\* the event loop outside process_changed_file
MainIdle == [pc |-> "idle", file |-> NoFile, contains |-> FALSE, entry |-> "Absent", held |-> {}]

LockInit ==
    /\ pool = [t \in Workers |-> [job |-> Idle, held |-> {}]]
    /\ main = MainIdle
    /\ retired = [f \in Files |-> "Absent"]

HeldBy(t) == IF t = "main" THEN main.held ELSE pool[t].held
\* read() / write() return at once only if no other thread holds the lock in
\* a conflicting mode; otherwise the caller blocks
CanRead(t, l) == \A u \in Threads \ {t} : <<l, "w">> \notin HeldBy(u)
CanWrite(t, l) == \A u \in Threads \ {t} : <<l, "r">> \notin HeldBy(u) /\ <<l, "w">> \notin HeldBy(u)
Acquire(held, l, m) == held \cup {<<l, m>>}
\* the guard is dropped (end of its block, or drop(guard))
ReleaseKept(held, l, m) == held
Release(held, l, m) == held \ {<<l, m>>}

\* the jobs handed to the pool and not yet finished: queued, or run by a thread
BusyWorkers == {t \in Workers : pool[t].job.pc # "idle"}
InFlight == BagCardinality(jobs) + Cardinality(BusyWorkers)

\* a pool thread moves on with its job, or finishes it
WorkerStep(t, job, held) == pool' = [pool EXCEPT ![t] = [job |-> job, held |-> held]]
WorkerDone(t, held) == pool' = [pool EXCEPT ![t] = [job |-> Idle, held |-> held]]

\* an idle pool thread takes a queued job
WTake(t) ==
    /\ LoopRunning /\ pool[t].job.pc = "idle"
    /\ \E j \in BagToSet(jobs) :
        /\ jobs' = jobs (-) SetToBag({j})
        /\ WorkerStep(t, [j EXCEPT !.pc = "old"], pool[t].held)
    /\ UNCHANGED <<workspaces, opened_files, temporary_workspace, workspace_config_cache,
                   vfs, tasks, published, crashed, temp_failed, nevents, loopvars,
                   main, retired>>

\* old_diags: read under the registry read lock, dropped with the statement
WReadOld(t) ==
    LET j == pool[t].job IN
    /\ LoopRunning /\ j.pc = "old"
    /\ CanRead(t, "workspaces")
    /\ WorkerStep(t, [j EXCEPT !.pc = "start", !.old = OldDiags(workspaces[j.ws])],
                  pool[t].held)
    /\ UNCHANGED <<workspaces, opened_files, temporary_workspace, workspace_config_cache,
                   vfs, jobs, tasks, published, crashed, temp_failed, nevents, loopvars,
                   main, retired>>

\* the start transition: the block takes the registry write lock and writes
WStartLock(t) ==
    LET j == pool[t].job IN
    /\ LoopRunning /\ j.pc = "start"
    /\ CanWrite(t, "workspaces")
    /\ workspaces' = [workspaces EXCEPT ![j.ws] = StartTransition(@)]
    /\ WorkerStep(t, [j EXCEPT !.pc = "started"], Acquire(pool[t].held, "workspaces", "w"))
    /\ UNCHANGED <<opened_files, temporary_workspace, workspace_config_cache,
                   vfs, jobs, tasks, published, crashed, temp_failed, nevents, loopvars,
                   main, retired>>

\* ... and its guard is dropped at the end of the block, before compile
WStartUnlock(t) ==
    LET j == pool[t].job IN
    /\ LoopRunning /\ j.pc = "started"
    /\ WorkerStep(t, [j EXCEPT !.pc = "compile"], Release(pool[t].held, "workspaces", "w"))
    /\ UNCHANGED <<workspaces, opened_files, temporary_workspace, workspace_config_cache,
                   vfs, jobs, tasks, published, crashed, temp_failed, nevents, loopvars,
                   main, retired>>

\* the call of compile
WCompile(t) ==
    LET j == pool[t].job IN
    /\ LoopRunning /\ j.pc = "compile"
    /\ WorkerStep(t, [j EXCEPT !.pc = "publish", !.res = Compile(j.ws, vfs)], pool[t].held)
    /\ UNCHANGED <<workspaces, opened_files, temporary_workspace, workspace_config_cache,
                   vfs, jobs, tasks, published, crashed, temp_failed, nevents, loopvars,
                   main, retired>>

WPublish(t) ==
    LET j == pool[t].job IN
    /\ LoopRunning /\ j.pc = "publish"
    /\ \E order \in Orderings(Publications(j.old, j.res.db.diags)) :
        /\ Len(tasks) + Len(order) <= MaxTasks
        /\ tasks' = tasks \o order
    /\ WorkerStep(t, [j EXCEPT !.pc = "install"], pool[t].held)
    /\ UNCHANGED <<workspaces, opened_files, temporary_workspace, workspace_config_cache,
                   vfs, jobs, published, crashed, temp_failed, nevents, loopvars,
                   main, retired>>

\* match compile_res: both arms take the registry write lock and write
WInstallLock(t) ==
    LET j == pool[t].job IN
    /\ LoopRunning /\ j.pc = "install"
    /\ CanWrite(t, "workspaces")
    /\ workspaces' = [workspaces EXCEPT ![j.ws] = InstallState(j.res)]
    /\ WorkerStep(t, [j EXCEPT !.pc = IF j.res.ok THEN "ok_reg" ELSE "err_reg"],
                  Acquire(pool[t].held, "workspaces", "w"))
    /\ UNCHANGED <<opened_files, temporary_workspace, workspace_config_cache,
                   vfs, jobs, tasks, published, crashed, temp_failed, nevents, loopvars,
                   main, retired>>

\* Ok arm: drop(workspaces)
WOkUnlock(t) ==
    LET j == pool[t].job
        held == Release(pool[t].held, "workspaces", "w")
    IN
    /\ LoopRunning /\ j.pc = "ok_reg"
    /\ IF j.temp /\ j.fid # NoFile
       THEN WorkerStep(t, [j EXCEPT !.pc = "temp"], held)
       ELSE WorkerDone(t, held)
    /\ UNCHANGED <<workspaces, opened_files, temporary_workspace, workspace_config_cache,
                   vfs, jobs, tasks, published, crashed, temp_failed, nevents, loopvars,
                   main, retired>>

\* Ok arm: the temporary_workspace write lock is taken, written under, dropped
WTemporary(t) ==
    LET j == pool[t].job IN
    /\ LoopRunning /\ j.pc = "temp"
    /\ CanWrite(t, "temporary_workspace")
    /\ temporary_workspace' = OkTemporary(temporary_workspace, j)
    /\ WorkerDone(t, pool[t].held)
    /\ UNCHANGED <<workspaces, opened_files, workspace_config_cache,
                   vfs, jobs, tasks, published, crashed, temp_failed, nevents, loopvars,
                   main, retired>>

\* Err arm: still holding the registry write lock, a temporary job takes the
\* temporary_workspace write lock, removes the entry and drops it; the
\* registry guard is dropped at the end of the arm
WErrFinish(t) ==
    LET j == pool[t].job IN
    /\ LoopRunning /\ j.pc = "err_reg"
    /\ (j.temp /\ j.fid # NoFile) => CanWrite(t, "temporary_workspace")
    /\ temporary_workspace' = ErrTemporary(temporary_workspace, j)
    /\ temp_failed' = IF j.temp /\ j.fid # NoFile
                      THEN temp_failed \cup {j.fid} ELSE temp_failed
    /\ WorkerDone(t, Release(pool[t].held, "workspaces", "w"))
    /\ UNCHANGED <<workspaces, opened_files, workspace_config_cache,
                   vfs, jobs, tasks, published, crashed, nevents, loopvars,
                   main, retired>>

\* --- the event loop, one step per lock scope of process_changed_file
\* Create, first part: the registry read guard is taken and kept; the None
\* placeholder is inserted; the scan records the Ready owners and posts a retry
\* per busy workspace; without owner, discovery and its temporary compiles
MCreateBegin(of, rest, f) ==
    /\ CanRead("main", "workspaces")
    /\ CanWrite("main", "temporary_workspace")
    /\ \E e \in CreateEffects(workspaces, of, temporary_workspace,
                              workspace_config_cache, f) :
        /\ temporary_workspace' = [temporary_workspace EXCEPT ![f] = "None"]
        /\ IF e.crash
           THEN /\ crashed' = TRUE
                /\ tasks' = rest
                /\ opened_files' = of
                /\ main' = [main EXCEPT !.held = Acquire(main.held, "workspaces", "r")]
                /\ UNCHANGED <<workspace_config_cache, jobs>>
           ELSE /\ InFlight + BagCardinality(e.jobs) <= MaxJobs
                /\ Len(rest) + Len(e.tasks) <= MaxTasks
                /\ opened_files' = e.opened_files
                /\ workspace_config_cache' = e.cache
                /\ jobs' = jobs (+) e.jobs
                /\ tasks' = rest \o e.tasks
                /\ main' = [pc |-> "create_end", file |-> f,
                            contains |-> (ReadyOwners(workspaces, f) # {}),
                            entry |-> "Absent",
                            held |-> Acquire(main.held, "workspaces", "r")]
                /\ UNCHANGED crashed
    /\ UNCHANGED <<workspaces, pool, retired>>

\* Create, last part: with an owner the placeholder is removed; without, it is
\* removed only if the entry is still None (or gone); then the registry read
\* guard goes out of scope
PlaceholderKept(tw, f, contains) == tw
PlaceholderRemoved(tw, f, contains) ==
    IF contains \/ tw[f] \in {"None", "Absent"} THEN [tw EXCEPT ![f] = "Absent"] ELSE tw
MCreateEnd ==
    /\ LoopRunning /\ main.pc = "create_end"
    /\ CanWrite("main", "temporary_workspace")
    /\ temporary_workspace' = PlaceholderRemoved(temporary_workspace, main.file, main.contains)
    /\ main' = [MainIdle EXCEPT !.held = Release(main.held, "workspaces", "r")]
    /\ UNCHANGED <<workspaces, opened_files, workspace_config_cache, vfs, jobs, tasks,
                   published, crashed, temp_failed, nevents, loopvars, pool, retired>>

\* Delete, first part: the temporary_workspace write guard is taken and kept,
\* the entry removed; only if there was one the registry is touched
MDeleteBegin(of, f) ==
    /\ CanWrite("main", "temporary_workspace")
    /\ temporary_workspace' = [temporary_workspace EXCEPT ![f] = "Absent"]
    /\ opened_files' = of
    /\ retired' = [retired EXCEPT ![f] = IF temporary_workspace[f] \in Workspaces
                                         THEN temporary_workspace[f] ELSE "Absent"]
    /\ main' = IF temporary_workspace[f] = "Absent" THEN MainIdle
               ELSE [pc |-> "delete_reg", file |-> f, contains |-> FALSE,
                     entry |-> temporary_workspace[f],
                     held |-> Acquire(main.held, "temporary_workspace", "w")]
    /\ UNCHANGED <<workspaces, workspace_config_cache, jobs, tasks, crashed, pool>>

\* Delete, last part: the registry write lock is taken while the
\* temporary_workspace guard is held; both are dropped at the end
MDeleteEnd ==
    /\ LoopRunning /\ main.pc = "delete_reg"
    /\ CanWrite("main", "workspaces")
    /\ workspaces' = IF main.entry \in Workspaces
                     THEN [workspaces EXCEPT ![main.entry] = Absent] ELSE workspaces
    /\ main' = [MainIdle EXCEPT !.held = Release(main.held, "temporary_workspace", "w")]
    /\ UNCHANGED <<opened_files, temporary_workspace, workspace_config_cache, vfs, jobs,
                   tasks, published, crashed, temp_failed, nevents, loopvars, pool, retired>>

\* the event loop takes its next event only after the handler has returned
MDidOpen(f) ==
    /\ LoopRunning /\ main.pc = "idle" /\ nevents < MaxEvents
    /\ ~opened_files[f].open
    /\ nevents' = nevents + 1
    /\ MCreateBegin(OnDidOpen(opened_files, f), tasks, f)
    /\ temp_failed' = temp_failed \ {f}
    /\ UNCHANGED <<vfs, published, loopvars>>

\* Modify takes its read guards (opened_files, the config cache, the entry of
\* temporary_workspace) and hands the compiles to the pool in one pass
MDidChange(f, c) ==
    /\ main.pc = "idle"
    /\ CanRead("main", "opened_files") /\ CanRead("main", "workspace_config_cache")
    /\ CanRead("main", "temporary_workspace")
    /\ InFlight + 1 <= MaxJobs
    /\ DidChange(f, c)

MDidClose(f) ==
    /\ LoopRunning /\ main.pc = "idle" /\ nevents < MaxEvents
    /\ opened_files[f].open
    /\ nevents' = nevents + 1
    /\ MDeleteBegin(OnDidClose(opened_files, f), f)
    /\ UNCHANGED <<vfs, published, temp_failed, loopvars>>

MHandleNotify == main.pc = "idle" /\ HandleNotify

\* Task::ChangedFile: the retry of a Create enters the Create handler; the
\* retry of a Modify is handled in one pass
MHandleChangedFile ==
    /\ LoopRunning /\ main.pc = "idle"
    /\ tasks # <<>> /\ Head(tasks).type = "ChangedFile"
    /\ IF Head(tasks).kind = "Create"
       THEN /\ MCreateBegin(opened_files, Tail(tasks), Head(tasks).file)
            /\ UNCHANGED <<vfs, published, temp_failed, nevents, loopvars>>
       ELSE HandleChangedFile

\* ------------------------------------------------------------ specification
\* LanguageServerState::new: empty maps, then init_workspaces has handed one
\* compile job per folder workspace to the pool.
Init ==
    /\ workspaces = [w \in Workspaces |-> Absent]
    /\ opened_files = [f \in Files |-> [open |-> FALSE, workspaces |-> {}]]
    /\ temporary_workspace = [f \in Files |-> "Absent"]
    /\ workspace_config_cache = CacheInsert({}, FolderWorkspaces)
    /\ vfs = [f \in Files |-> 0]
    /\ jobs = SetToBag({NewJob(w, NoFile, FALSE) : w \in FolderWorkspaces})
    /\ tasks = <<>>
    /\ published = [f \in Files |-> NotPublished]
    /\ crashed = FALSE
    /\ temp_failed = {}
    /\ nevents = 0
    /\ LoopInit
    /\ LockInit

Next ==
    \/ \E f \in Files : DidOpen(f)
    \/ \E f \in Files, c \in Contents : DidChange(f, c)
    \/ \E f \in Files : DidClose(f)
    \/ HandleNotify
    \/ HandleChangedFile
    \/ \E j \in BagToSet(jobs) : JobReadOld(j)
    \/ \E j \in BagToSet(jobs) : JobStart(j)
    \/ \E j \in BagToSet(jobs) : JobCompile(j)
    \/ \E j \in BagToSet(jobs) : JobPublish(j)
    \/ \E j \in BagToSet(jobs) : JobInstall(j)
    \/ \E j \in BagToSet(jobs) : JobTemporary(j)

Spec == Init /\ [][Next]_vars

\* Rapid edits (scenario S3): the folder compile of W1 has finished, fa has
\* been opened and classified into W1, and the client only edits fa.
InitEdits ==
    /\ workspaces = [w \in Workspaces |->
                        IF w = "W1" THEN Ready(Compile("W1", [f \in Files |-> 0]).db)
                        ELSE Absent]
    /\ opened_files = [f \in Files |->
                        IF f = "fa" THEN [open |-> TRUE, workspaces |-> {"W1"}]
                        ELSE [open |-> FALSE, workspaces |-> {}]]
    /\ temporary_workspace = [f \in Files |-> "Absent"]
    /\ workspace_config_cache = CacheInsert({}, FolderWorkspaces)
    /\ vfs = [f \in Files |-> 0]
    /\ jobs = EmptyBag
    /\ tasks = <<>>
    /\ published = [f \in Files |-> NotPublished]
    /\ crashed = FALSE
    /\ temp_failed = {}
    /\ nevents = 1
    /\ LoopInit
    /\ LockInit

NextEdits ==
    \/ \E c \in Contents : DidChange("fa", c)
    \/ HandleNotify
    \/ \E j \in BagToSet(jobs) : JobReadOld(j)
    \/ \E j \in BagToSet(jobs) : JobStart(j)
    \/ \E j \in BagToSet(jobs) : JobCompile(j)
    \/ \E j \in BagToSet(jobs) : JobPublish(j)
    \/ \E j \in BagToSet(jobs) : JobInstall(j)

SpecEdits == InitEdits /\ [][NextEdits]_vars

\* Compile-while-open (scenario S4): the server has just started, the client
\* opens one file while the folder compile is queued or running, and sends
\* nothing more.  The event loop and every pool thread keep running.
InitRetry ==
    /\ workspaces = [w \in Workspaces |-> Absent]
    /\ opened_files = [f \in Files |-> [open |-> FALSE, workspaces |-> {}]]
    /\ temporary_workspace = [f \in Files |-> "Absent"]
    /\ workspace_config_cache = CacheInsert({}, FolderWorkspaces)
    /\ vfs \in [Files -> {0, 1}]
    /\ jobs = SetToBag({NewJob(w, NoFile, FALSE) : w \in FolderWorkspaces})
    /\ tasks = <<>>
    /\ published = [f \in Files |-> NotPublished]
    /\ crashed = FALSE
    /\ temp_failed = {}
    /\ nevents = 0
    /\ LoopInit
    /\ LockInit

NextRetry ==
    \/ \E f \in Files : nevents = 0 /\ DidOpen(f)
    \/ HandleNotify
    \/ HandleChangedFile
    \/ \E j \in BagToSet(jobs) : JobReadOld(j)
    \/ \E j \in BagToSet(jobs) : JobStart(j)
    \/ \E j \in BagToSet(jobs) : JobCompile(j)
    \/ \E j \in BagToSet(jobs) : JobPublish(j)
    \/ \E j \in BagToSet(jobs) : JobInstall(j)
    \/ \E j \in BagToSet(jobs) : JobTemporary(j)

\* the event loop handles every task it receives; every job handed to the pool
\* is run to its end
FairRetry ==
    /\ WF_vars(HandleNotify)
    /\ WF_vars(HandleChangedFile)
    /\ WF_vars(\E j \in BagToSet(jobs) : JobReadOld(j))
    /\ WF_vars(\E j \in BagToSet(jobs) : JobStart(j))
    /\ WF_vars(\E j \in BagToSet(jobs) : JobCompile(j))
    /\ WF_vars(\E j \in BagToSet(jobs) : JobPublish(j))
    /\ WF_vars(\E j \in BagToSet(jobs) : JobInstall(j))
    /\ WF_vars(\E j \in BagToSet(jobs) : JobTemporary(j))

SpecRetry == InitRetry /\ [][NextRetry]_vars /\ FairRetry

\* The whole run loop: the client sends requests, cancels, didOpen / didClose,
\* shutdown and exit, closes its channels; fa holds a diagnostic from the start.
InitLoop ==
    /\ workspaces = [w \in Workspaces |-> Absent]
    /\ opened_files = [f \in Files |-> [open |-> FALSE, workspaces |-> {}]]
    /\ temporary_workspace = [f \in Files |-> "Absent"]
    /\ workspace_config_cache = CacheInsert({}, FolderWorkspaces)
    /\ vfs = [f \in Files |-> IF f = "fa" THEN 1 ELSE 0]
    /\ jobs = SetToBag({NewJob(w, NoFile, FALSE) : w \in FolderWorkspaces})
    /\ tasks = <<>>
    /\ published = [f \in Files |-> NotPublished]
    /\ crashed = FALSE
    /\ temp_failed = {}
    /\ nevents = 0
    /\ LoopInit
    /\ LockInit

NextLoop ==
    \/ \E msg \in ClientMessages : ClientSends(msg)
    \/ ClientCloses
    \/ ClientGone
    \/ RunExit
    \/ RunClosed
    \/ OnRequest
    \/ OnNotification
    \/ HandleNotify
    \/ HandleChangedFile
    \/ HandleResponse
    \/ HandleRetry
    \/ \E id \in ReqIds : WorkerResponds(id)
    \/ \E id \in ReqIds : WorkerRetries(id)
    \/ \E j \in BagToSet(jobs) : JobReadOld(j)
    \/ \E j \in BagToSet(jobs) : JobStart(j)
    \/ \E j \in BagToSet(jobs) : JobCompile(j)
    \/ \E j \in BagToSet(jobs) : JobPublish(j)
    \/ \E j \in BagToSet(jobs) : JobInstall(j)
    \/ \E j \in BagToSet(jobs) : JobTemporary(j)

SpecLoop == InitLoop /\ [][NextLoop]_vars

\* Lock level: the server from its start, the client opens, edits and closes
\* the loose file; the event loop and the pool threads take one step per lock
\* scope.
LockFiles == {"fx"}
NextLocks ==
    \/ \E f \in LockFiles : MDidOpen(f)
    \/ \E f \in LockFiles, c \in Contents : MDidChange(f, c)
    \/ \E f \in LockFiles : MDidClose(f)
    \/ MHandleNotify
    \/ MHandleChangedFile
    \/ MCreateEnd
    \/ MDeleteEnd
    \/ \E t \in Workers : WTake(t)
    \/ \E t \in Workers : WReadOld(t)
    \/ \E t \in Workers : WStartLock(t)
    \/ \E t \in Workers : WStartUnlock(t)
    \/ \E t \in Workers : WCompile(t)
    \/ \E t \in Workers : WPublish(t)
    \/ \E t \in Workers : WInstallLock(t)
    \/ \E t \in Workers : WOkUnlock(t)
    \/ \E t \in Workers : WTemporary(t)
    \/ \E t \in Workers : WErrFinish(t)

SpecLocks == Init /\ [][NextLocks]_vars

\* ------------------------------------------------------ sequential replay
\* The state a ChangedFile task reads and writes.
Core(ws, of, tw, cache) ==
    [workspaces |-> ws, opened_files |-> of, temporary_workspace |-> tw, cache |-> cache]

\* one compile job run from start to end with no other thread in between
RunJob(c, job) ==
    LET res == Compile(job.ws, vfs)
        ws == [c.workspaces EXCEPT ![job.ws] = InstallState(res)]
        tw == IF ~res.ok THEN ErrTemporary(c.temporary_workspace, job)
              ELSE IF job.temp /\ job.fid # NoFile
                   THEN OkTemporary(c.temporary_workspace, job)
                   ELSE c.temporary_workspace
    IN  Core(ws, c.opened_files, tw, c.cache)

RECURSIVE RunJobs(_, _)
RunJobs(c, js) ==
    IF js = {} THEN c
    ELSE LET job == CHOOSE j \in js : TRUE IN RunJobs(RunJob(c, job), js \ {job})

\* handle_task(Task::ChangedFile(f, kind)) from a state with no job in the
\* pool, then let the jobs it enqueued run to their end
HandleAndQuiesce(c, f, kind) ==
    LET e == CHOOSE x \in ChangedFileEffects(c.workspaces, c.opened_files,
                                             c.temporary_workspace, c.cache, f, kind) : TRUE
    IN  IF e.crash THEN c
        ELSE RunJobs(Core(e.workspaces, e.opened_files, e.temporary_workspace, e.cache),
                     BagToSet(e.jobs))

\* the maps as the didOpen handler leaves them for a file that was closed
Opened(f) ==
    Core(workspaces, OnDidOpen(opened_files, f), temporary_workspace,
         workspace_config_cache)

SameMaps(c, d) ==
    /\ c.workspaces = d.workspaces
    /\ c.opened_files = d.opened_files
    /\ c.temporary_workspace = d.temporary_workspace

\* ------------------------------------------------------------------ claims
\* every compile job handed to the pool has finished
JobsDone == jobs = EmptyBag
\* ... and the event loop has handled every task they and the handlers posted
Quiescent == JobsDone /\ tasks = <<>>
\* the step closes file f (only didClose does), so it processes Delete(f)
Closes(f) == opened_files[f].open /\ ~opened_files'[f].open

\* C1: once every enqueued compile job has finished, the registry entry of
\* every workspace is Ready or absent, never Compiling or Init.
C1_NoStuckCompiling ==
    JobsDone => \A w \in Workspaces : workspaces[w].st \in {"Ready", "Absent"}
\* both workspaces were compiled (by several jobs) and all jobs have finished
C1_Witness ==
    /\ JobsDone /\ nevents >= 2
    /\ workspaces["W1"].st = "Ready" /\ workspaces["Wx"].st = "Ready"

\* C4: Delete(fid) with temporary_workspace[fid] = Some(W) removes the entry of
\* fid and removes W from the registry (and nothing else from either map);
\* with no entry for fid it changes neither map.
C4_DeleteStep(f) ==
    /\ temporary_workspace[f] \in Workspaces =>
        /\ temporary_workspace' = [temporary_workspace EXCEPT ![f] = "Absent"]
        /\ workspaces' = [workspaces EXCEPT ![temporary_workspace[f]] = Absent]
    /\ temporary_workspace[f] = "Absent" =>
        UNCHANGED <<temporary_workspace, workspaces>>
C4_DeleteTemporary == [][\A f \in Files : Closes(f) => C4_DeleteStep(f)]_vars
\* the loose file was opened, its temporary workspace compiled and resolved,
\* and closing it has retired both
C4_Witness ==
    /\ Quiescent /\ ~crashed
    /\ ~opened_files["fx"].open /\ vfs["fx"] = 0
    /\ "Wx" \in workspace_config_cache
    /\ temporary_workspace["fx"] = "Absent"
    /\ workspaces["Wx"].st = "Absent"

Shown(f) == IF published[f] = NotPublished THEN {} ELSE published[f]
\* the jobs of workspace w that a pool thread is running
Running(w) == {j \in BagToSet(jobs) : j.ws = w /\ j.pc # "queued"}
InProgress(w) ==
    LET js == Running(w) IN
    IF js = {} THEN 0 ELSE BagCardinality([j \in js |-> jobs[j]])

\* C2: once all compile jobs have finished and every task is handled, the last
\* publishDiagnostics sent for a file equals the diagnostics for that file of
\* the last successful compile of the workspace owning it.
C2_DiagConvergence ==
    Quiescent =>
        \A w \in Workspaces : \A f \in Files :
            (workspaces[w].st = "Ready" /\ HasModule(workspaces[w].db, f))
                => Shown(f) = DiagsOf(workspaces[w].db.diags, f)

\* C3: at most one compile of a workspace is in progress at a time.
C3_OneCompileAtATime == \A w \in Workspaces : InProgress(w) <= 1

TempCompileInFlight(f) == \E j \in BagToSet(jobs) : j.temp /\ j.fid = f
C6_TemporaryIffLoose ==
    \A f \in Files :
        /\ (opened_files[f].open /\ opened_files[f].workspaces = {}
                /\ TempCompileInFlight(f))
            => temporary_workspace[f] # "Absent"
        /\ ~(opened_files[f].workspaces # {} /\ temporary_workspace[f] # "Absent")

\* C8: for every open file whose discovery returns a workspace, after all
\* compile jobs and retries have finished, the file has an owning workspace or
\* a resolved temporary workspace.
HasWorkspace(f) ==
    opened_files[f].workspaces # {} \/ temporary_workspace[f] \in Workspaces
C9_RetryIdempotent ==
    (Quiescent /\ ~crashed) =>
        \A f \in Files : \A kind \in {"Create", "Modify"} :
            LET c0 == IF opened_files[f].open
                      THEN Core(workspaces, opened_files, temporary_workspace,
                                workspace_config_cache)
                      ELSE Opened(f)
                once == HandleAndQuiesce(c0, f, kind)
                twice == HandleAndQuiesce(once, f, kind)
            IN  SameMaps(twice, once)

\* C10 (checked under SpecEdits): after back-to-back Modify events for a file
\* owned by exactly one workspace, once all compile jobs have finished the
\* Ready database of that workspace is the result of compiling the buffer
\* content of the last edit, and so are the diagnostics the client shows.
C10_FinalReadyIsLastEdit ==
    /\ JobsDone =>
        (workspaces["W1"].st = "Ready"
            => workspaces["W1"].db = Compile("W1", vfs).db)
    /\ Quiescent => Shown("fa") = DiagsOf(CompileDiags("W1", vfs), "fa")
\* the start of the rapid-edit scenario is a state the server reaches
C10_EditsStart ==
    /\ Quiescent /\ ~crashed /\ nevents = 1
    /\ workspaces["W1"] = Ready(Compile("W1", [f \in Files |-> 0]).db)
    /\ workspaces["Wx"] = Absent
    /\ opened_files["fa"] = [open |-> TRUE, workspaces |-> {"W1"}]
    /\ ~opened_files["fx"].open
    /\ temporary_workspace = [f \in Files |-> "Absent"]
    /\ vfs = [f \in Files |-> 0]

\* the step in which job j sends its publications / writes its result
Publishes(j) ==
    /\ j.pc = "publish"
    /\ jobs' = (jobs (-) SetToBag({j})) (+) SetToBag({[j EXCEPT !.pc = "install"]})
Installs(j) ==
    /\ j.pc = "install"
    /\ \/ jobs' = jobs (-) SetToBag({j})
       \/ jobs' = (jobs (-) SetToBag({j})) (+) SetToBag({[j EXCEPT !.pc = "temp"]})
\* the tasks a step appended to the task bus
Posted == {tasks'[i] : i \in (Len(tasks) + 1)..Len(tasks')}

\* C11: when a compile job returns an error, the diagnostics of that attempt
\* are still sent as publishDiagnostics notifications, the workspace is removed
\* from the registry, and a temporary job with a file id removes the file's
\* temporary_workspace entry.
C11_FailedCompile ==
    [][\A j \in BagToSet(jobs) : ~j.res.ok =>
        /\ Publishes(j) =>
            \A f \in DiagFiles(j.res.db.diags) :
                Notify(f, DiagsOf(j.res.db.diags, f)) \in Posted
        /\ Installs(j) =>
            /\ workspaces'[j.ws] = Absent
            /\ (j.temp /\ j.fid # NoFile) => temporary_workspace'[j.fid] = "Absent"]_vars
\* the temporary compile of the edited loose file failed: its diagnostic
\* reached the client, and the workspace and the file's entry are gone
C11_Witness ==
    /\ Quiescent /\ opened_files["fx"].open /\ "fx" \in temp_failed
    /\ published["fx"] = {<<"fx", 2>>}
    /\ workspaces["Wx"] = Absent
    /\ temporary_workspace["fx"] = "Absent"

\* C12: after a compile of a workspace has failed and the workspace has been
\* removed, the next Modify for an open file that belonged to it calls
\* lookup_compile_workspaces again before a compile is scheduled.
C12_ModifyRediscovers ==
    \A f \in Files : \A w \in Workspaces :
        (opened_files[f].open /\ w \in opened_files[f].workspaces
            /\ workspaces[w].st = "Absent")
        => LookupCalls(workspaces, opened_files, f, "Modify") >= 1

\* C14: a registry entry only changes along absent/Init -> Compiling -> Ready,
\* Ready -> Compiling (same database), Compiling -> Ready and Compiling ->
\* removed; the removal by a Delete change is not a compile job's transition.
DBStep(a, b) ==
    \/ a.st = "Absent" /\ b.st \in {"Init", "Compiling"}
    \/ a.st = "Init" /\ b.st = "Compiling"
    \/ a.st = "Ready" /\ b = Compiling(a.db)
    \/ a.st = "Compiling" /\ b.st \in {"Ready", "Absent"}
C14_DBStateMachine ==
    [][\A w \in Workspaces :
        (workspaces'[w] # workspaces[w] /\ ~\E f \in Files : Closes(f))
            => DBStep(workspaces[w], workspaces'[w])]_vars

\* C13: a Create retry posted because a workspace was Init or Compiling is
\* eventually followed by the end of the retry chain, with the file recorded
\* as owned by every workspace whose Ready program holds it (checked under
\* SpecRetry: fair event loop and workers, no further client events).
RetryPending(f) == \E i \in 1..Len(tasks) : tasks[i] = ChangedFile(f, "Create")
RetryResolved(f) ==
    /\ ~RetryPending(f)
    /\ \A w \in Workspaces :
        (workspaces[w].st = "Ready" /\ HasModule(workspaces[w].db, f))
            => w \in opened_files[f].workspaces
C13_RetryResolves == \A f \in Files : RetryPending(f) ~> RetryResolved(f)

\* C20: jobs of one workspace in flight together interact only through their
\* registry writes: every successful job's install step writes its own
\* database as Ready whatever the entry was, and a Ready entry only ever
\* changes by such a write, so the last install wins (checked under SpecEdits).
C20_LastWriterWins ==
    [][\A w \in Workspaces :
        /\ \A j \in BagToSet(jobs) :
            (j.ws = w /\ j.res.ok /\ Installs(j)) => workspaces'[w] = Ready(j.res.db)
        /\ (workspaces'[w].st = "Ready" /\ workspaces'[w] # workspaces[w])
            => \E j \in BagToSet(jobs) :
                /\ j.ws = w /\ j.res.ok /\ Installs(j)
                /\ workspaces'[w] = Ready(j.res.db)]_vars
\* two edits, two jobs, both compiles succeeded, and the database left is not
\* the one of the last edit: the first edit's job wrote last
C20_Witness ==
    /\ JobsDone /\ nevents = 3 /\ CompileOk("W1", vfs)
    /\ workspaces["W1"].st = "Ready"
    /\ workspaces["W1"].db # Compile("W1", vfs).db

\* the step receives the message at the head of the client channel
Receives == inbox # <<>> /\ inbox' = Tail(inbox)
ExitAtHead ==
    inbox # <<>> /\ Head(inbox).kind = "Notification" /\ Head(inbox).method = "exit"
\* the step takes the task at the head of the task bus and handles it
Takes(task) == tasks # <<>> /\ Head(tasks) = task /\ Len(tasks') < Len(tasks)
\* everything the client can observe: the messages sent to it
ClientView == <<published, answered, nlogs>>

\* C15 (checked under SpecLoop): receiving Exit makes run return Ok without
\* handling the event; nothing is sent to the client after run has returned,
\* even with tasks pending; run returns Ok only on Exit or on a closed and
\* empty client channel, so a shutdown request alone never ends the loop.
C15_ExitEndsRun ==
    [][/\ (LoopRunning /\ ExitAtHead /\ Receives) =>
            /\ run_state' = "ok"
            /\ UNCHANGED <<workspaces, opened_files, temporary_workspace,
                           workspace_config_cache, vfs, jobs, tasks, crashed,
                           incoming, reqjobs, changes, shutdown_requested,
                           send_failed, ClientView>>
       /\ run_state # "running" => UNCHANGED <<run_state, tasks, ClientView>>
       /\ (run_state = "running" /\ run_state' # "running") =>
            \/ run_state' = "ok" /\ ExitAtHead /\ Receives
            \/ run_state' = "ok" /\ inbox = <<>> /\ ~client_open
            \/ run_state' = "err" /\ ~sender_ok]_vars
\* shutdown was answered, then Exit ended the run with a task still on the bus
C15_Witness ==
    /\ run_state = "ok" /\ shutdown_requested /\ client_open /\ inbox = <<>>
    /\ answered["r1"] = 1
    /\ tasks # <<>>

C17_RespondOnce ==
    [][\A id \in ReqIds :
        /\ answered'[id] <= 1
        /\ answered'[id] # answered[id] => id \notin incoming'
        /\ (Takes(Response(id)) /\ id \notin incoming) =>
            UNCHANGED <<ClientView, incoming, run_state, send_failed>>]_vars
\* the request was cancelled before its worker's response arrived: the
\* response was discarded and nothing was sent for it
C17_Witness ==
    /\ "r1" \in requested /\ "r1" \in discarded
    /\ answered["r1"] = 0 /\ "r1" \notin incoming /\ "r1" \notin reqjobs
    /\ LoopRunning /\ sender_ok

\* C18 (checked under SpecLoop): a Task::Retry re-enters request handling only
\* if its request is pending when the task is handled; a Retry for a completed
\* request changes nothing and sends nothing.
C18_RetryOnlyIfPending ==
    [][\A id \in ReqIds : Takes(Retry(id)) =>
        IF id \in incoming
        THEN \/ id \in reqjobs'
             \/ answered'[id] = answered[id] + 1
             \/ run_state' = "err"
        ELSE UNCHANGED <<ClientView, incoming, reqjobs, run_state, send_failed,
                         shutdown_requested, jobs, workspaces>>]_vars
\* a worker asked for a retry of a request that had been cancelled meanwhile
C18_Witness ==
    /\ "r1" \in dropped /\ answered["r1"] = 0
    /\ "r1" \notin incoming /\ "r1" \notin reqjobs
    /\ LoopRunning

\* C19 (checked under SpecLoop): whenever a send to the client fails, run
\* returns Err.
C19_SendFailurePropagates == send_failed => run_state = "err"

\* the step in which job j makes its start transition
Starts(j) ==
    /\ j.pc = "start"
    /\ jobs' = (jobs (-) SetToBag({j})) (+) SetToBag({[j EXCEPT !.pc = "compile"]})
\* a reader of the registry finds a database in the entry
HasDb(state) == state.st \in {"Ready", "Compiling"} /\ state.db # NoDb

\* C21: a starting job replaces Ready(db) by Compiling(db) with the same
\* database, leaves Compiling(db) and Init as they are and inserts Init for an
\* absent workspace; so an entry that holds a database keeps holding one until
\* the workspace is removed, and the database inside Compiling is the one of
\* the Ready (or Compiling) entry it replaced, the most recently installed one.
C21_StartKeepsDb ==
    [][\A w \in Workspaces :
        /\ \A j \in BagToSet(jobs) : (j.ws = w /\ Starts(j)) =>
            workspaces'[w] =
                IF workspaces[w].st = "Ready" THEN Compiling(workspaces[w].db)
                ELSE IF workspaces[w].st = "Absent" THEN DBInit
                ELSE workspaces[w]
        /\ workspaces[w].st \in {"Ready", "Compiling"} =>
            /\ HasDb(workspaces[w])
            /\ HasDb(workspaces'[w]) \/ workspaces'[w] = Absent
        /\ workspaces'[w].st = "Compiling" =>
            /\ workspaces[w].st \in {"Ready", "Compiling"}
            /\ workspaces'[w].db = workspaces[w].db]_vars
\* a second compile of W1 runs on edited content while the entry still holds
\* the database of the first compile
C21_Witness ==
    /\ workspaces["W1"] = Compiling(Compile("W1", [f \in Files |-> 0]).db)
    /\ vfs["fa"] = 1
    /\ \E j \in BagToSet(jobs) : j.ws = "W1" /\ j.pc = "publish" /\ j.res.db.src["fa"] = 1

\* the positions of the task bus a step appended, and those among them that
\* carry a publishDiagnostics for file f
PostedAt == (Len(tasks) + 1)..Len(tasks')
PostedFor(f) == {i \in PostedAt : tasks'[i].type = "Notify" /\ tasks'[i].file = f}
\* the step in which job j reads old_diags
ReadsOld(j, k) ==
    /\ j.pc = "queued" /\ k.pc = "start"
    /\ k = [j EXCEPT !.pc = "start", !.old = k.old]
    /\ jobs' = (jobs (-) SetToBag({j})) (+) SetToBag({k})
\* the jobs about to write their result to the registry
AtInstall(js) == {j \in BagToSet(js) : j.pc = "install"}

\* C22: a job's old_diags are the diagnostics of the registry entry when the
\* job starts (empty for Init or absent); the job posts one empty
\* publishDiagnostics for every file with diagnostics in old_diags but none in
\* its result, one publishDiagnostics with the new diagnostics for every file
\* with diagnostics in its result, nothing else, and all of it before it
\* writes its result to the registry.
C22_DiagnosticDiff ==
    [][/\ \A j \in BagToSet(jobs) : \A k \in BagToSet(jobs') : ReadsOld(j, k) =>
            k.old = IF workspaces[j.ws].st \in {"Ready", "Compiling"}
                    THEN workspaces[j.ws].db.diags ELSE {}
       /\ \A j \in BagToSet(jobs) : Publishes(j) =>
            /\ UNCHANGED workspaces
            /\ \A i \in PostedAt : tasks'[i].type = "Notify"
            /\ \A f \in Files :
                LET had == \E d \in j.old : d[1] = f
                    new == {d \in j.res.db.diags : d[1] = f}
                IN  IF new # {}
                    THEN /\ Cardinality(PostedFor(f)) = 1
                         /\ \A i \in PostedFor(f) : tasks'[i].diags = new
                    ELSE IF had
                    THEN /\ Cardinality(PostedFor(f)) = 1
                         /\ \A i \in PostedFor(f) : tasks'[i].diags = {}
                    ELSE PostedFor(f) = {}
       /\ \A j \in BagToSet(jobs) : Installs(j) => PostedAt = {}
       /\ \A k \in AtInstall(jobs') :
            CopiesIn(k, jobs') > CopiesIn(k, jobs) =>
                \E j \in BagToSet(jobs) : Publishes(j) /\ k = [j EXCEPT !.pc = "install"]]_vars
\* fa had a diagnostic, was edited clean, and the job of the edit cancelled
\* the stale marker with an empty list
C22_Witness ==
    /\ Quiescent /\ published["fa"] = {} /\ vfs["fa"] = 0
    /\ workspaces["W1"].st = "Ready" /\ workspaces["W1"].db.diags = {}

\* the step processes Create(f): the didOpen of f, or a Create retry task
ProcessesCreate(f) ==
    \/ ~opened_files[f].open /\ opened_files'[f].open
    \/ Takes(ChangedFile(f, "Create"))

\* C23 (first part, for a file that is open when the change is processed):
\* Create(f) with a Ready workspace holding f records every such workspace in
\* opened_files[f].workspaces, removes the placeholder of f and neither runs
\* discovery nor schedules a compile.
C23_CreateWithReadyOwner ==
    [][\A f \in Files :
        (ProcessesCreate(f) /\ opened_files'[f].open /\ ReadyOwners(workspaces, f) # {}) =>
        /\ ReadyOwners(workspaces, f) \subseteq opened_files'[f].workspaces
        /\ temporary_workspace'[f] = "Absent"
        /\ LookupCalls(workspaces, opened_files, f, "Create") = 0
        /\ jobs' = jobs]_vars

\* C23 (second part, checked under SpecRetry): fa is opened, possibly while
\* the first compile of W1 is in progress; after all jobs and retries have
\* finished, opened_files[fa].workspaces = {W1} and temporary_workspace is
\* empty.
C23_OpenClassified ==
    (Quiescent /\ opened_files["fa"].open) =>
        /\ opened_files["fa"].workspaces = {"W1"}
        /\ \A f \in Files : temporary_workspace[f] = "Absent"

\* C24: Create(f) while some workspace is Compiling or Init and no Ready
\* workspace holds f posts a ChangedFile(f, Create) retry and decides nothing
\* in that pass: it runs no discovery and schedules no temporary compile.
C24_CreateWhileBusyDefers ==
    [][\A f \in Files :
        (ProcessesCreate(f) /\ opened_files'[f].open /\ ~crashed'
            /\ Busy(workspaces) # {} /\ ReadyOwners(workspaces, f) = {}) =>
        /\ ChangedFile(f, "Create") \in Posted
        /\ LookupCalls(workspaces, opened_files, f, "Create") = 0
        /\ jobs' = jobs]_vars

\* the step processes Modify(f) for a didChange of f (only didChange writes
\* the buffer), and the jobs a step handed to the pool
ProcessesModify(f) == vfs'[f] # vfs[f]
Scheduled == jobs' (-) jobs

\* C25: Modify(f) for an open file does exactly one of: (a) with owning
\* workspaces, schedules one temp = false compile per owner, using the cached
\* options; (b) else with temporary_workspace[f] = Some(W), schedules one
\* temp = true compile of W; (c) else with a None placeholder, posts
\* ChangedFile(f, Modify) and schedules nothing; (d) else does nothing.  It
\* never changes opened_files, temporary_workspace or the registry.
C25_ModifyCases ==
    [][\A f \in Files :
        /\ (ProcessesModify(f) /\ opened_files[f].open) =>
            /\ ~crashed'
            /\ UNCHANGED <<opened_files, temporary_workspace, workspaces>>
            /\ IF opened_files[f].workspaces # {}
               THEN /\ Scheduled = SetToBag({NewJob(w, f, FALSE) :
                                             w \in opened_files[f].workspaces})
                    /\ opened_files[f].workspaces \subseteq workspace_config_cache
                    /\ Posted = {}
               ELSE IF temporary_workspace[f] \in Workspaces
               THEN /\ Scheduled = SetToBag({NewJob(temporary_workspace[f], f, TRUE)})
                    /\ temporary_workspace[f] \in workspace_config_cache
                    /\ Posted = {}
               ELSE IF temporary_workspace[f] = "None"
               THEN /\ Scheduled = EmptyBag
                    /\ Posted = {ChangedFile(f, "Modify")}
               ELSE Scheduled = EmptyBag /\ Posted = {}
        /\ Takes(ChangedFile(f, "Modify")) =>
            UNCHANGED <<opened_files, temporary_workspace, workspaces>>]_vars
\* case (a): an edit of fa, owned by W1, left a temp = false compile of W1 for
\* fa in the pool
C25_Witness ==
    /\ opened_files["fa"].workspaces = {"W1"} /\ vfs["fa"] # 0
    /\ workspace_config_cache = {"W1"}
    /\ \E j \in BagToSet(jobs) : j = NewJob("W1", "fa", FALSE)
\* case (b): the loose file fx was opened and resolved to Wx before any other
\* workspace was touched, and its edit left a temp = true compile of Wx
C25_WitnessTemporary ==
    /\ nevents = 2 /\ vfs["fx"] # 0 /\ tasks = <<>>
    /\ temporary_workspace["fx"] = "Wx" /\ opened_files["fx"].workspaces = {}
    /\ workspaces["W1"] = Absent
    /\ jobs = SetToBag({NewJob("W1", NoFile, FALSE), NewJob("Wx", "fx", TRUE)})

\* C26 (checked under SpecLocks): a pool thread holds no lock of the registry,
\* opened_files, temporary_workspace or the config cache while it calls the
\* compiler: the write guard of the start transition is dropped before
\* compile, and the registry is next locked only after compile has returned,
\* so other threads read and write the registry during a compile.
C26_NoLockDuringCompile ==
    \A t \in Workers :
        pool[t].job.pc \in {"compile", "publish"} =>
            \A l \in Locks : \A m \in {"r", "w"} : <<l, m>> \notin pool[t].held
\* one thread is inside compile while the other holds the registry write lock
\* and the event loop waits in its Delete handler
C26_Witness ==
    /\ pool["t1"].job.pc = "compile"
    /\ <<"workspaces", "w">> \in pool["t2"].held
    /\ main.pc = "delete_reg"

\* the lock a thread is about to take, as <<lock, mode>>, or <<>> if its next
\* step takes none
Wants(t) ==
    IF t = "main"
    THEN IF main.pc = "create_end" THEN <<"temporary_workspace", "w">>
         ELSE IF main.pc = "delete_reg" THEN <<"workspaces", "w">>
         ELSE <<>>
    ELSE LET j == pool[t].job IN
         IF j.pc = "old" THEN <<"workspaces", "r">>
         ELSE IF j.pc \in {"start", "install"} THEN <<"workspaces", "w">>
         ELSE IF j.pc = "temp" THEN <<"temporary_workspace", "w">>
         ELSE IF j.pc = "err_reg" /\ j.temp /\ j.fid # NoFile
              THEN <<"temporary_workspace", "w">>
         ELSE <<>>
\* thread t cannot go on before thread u drops a guard
WaitsFor(t, u) ==
    /\ t # u /\ Wants(t) # <<>>
    /\ \/ <<Wants(t)[1], "w">> \in HeldBy(u)
       \/ Wants(t)[2] = "w" /\ <<Wants(t)[1], "r">> \in HeldBy(u)

\* C27 (checked under SpecLocks): the event loop and the pool threads never
\* deadlock: no two threads each wait for a lock the other holds, in particular
\* not a Delete handler (temporary_workspace, then registry) and the Err arm of
\* a temporary job (registry, then temporary_workspace).
C27_NoDeadlock ==
    \A t \in Threads : \A u \in Threads : ~(WaitsFor(t, u) /\ WaitsFor(u, t))

\* every job handed to the pool has finished and the event loop is between
\* two handlers
PoolDone == jobs = EmptyBag /\ BusyWorkers = {} /\ main.pc = "idle"

\* C28 (checked under SpecLocks): once Delete(fid) has been processed for a
\* file whose temporary_workspace entry was Some(W), the file is still closed
\* and every compile job has finished, temporary_workspace has no entry for
\* fid and the registry has no entry for W.
C28_ClosedStaysRetired ==
    \A f \in Files :
        (retired[f] \in Workspaces /\ ~opened_files[f].open /\ PoolDone) =>
            /\ temporary_workspace[f] = "Absent"
            /\ workspaces[retired[f]] = Absent

\* C29 (checked under SpecLocks): between two handlers of the event loop
\* temporary_workspace holds no None placeholder: the None that Create inserts
\* is removed, or already replaced by Some(workspace) by a pool thread, when
\* the same handler ends; pool threads only insert Some(..) or remove.  So a
\* Modify handler never sees None and no ChangedFile(Modify) retry is posted.
C29_NoPlaceholderBetweenHandlers ==
    /\ (main.pc = "idle" /\ ~crashed) =>
            \A f \in Files : temporary_workspace[f] # "None"
    /\ \A i \in 1..Len(tasks) : tasks[i] # ChangedFile(tasks[i].file, "Modify")
\* the Create handler of the opened loose file has ended: its temporary
\* compile is in the pool and its placeholder is gone
C29_Witness ==
    /\ main.pc = "idle" /\ ~crashed /\ nevents = 1
    /\ opened_files["fx"].open /\ temporary_workspace["fx"] = "Absent"
    /\ NewJob("Wx", "fx", TRUE) \in BagToSet(jobs)
\* inside the handler of a Create retry a pool thread has replaced the
\* placeholder by Some(Wx)
C29_WitnessReplaced ==
    /\ main.pc = "create_end" /\ main.file = "fx" /\ ~main.contains
    /\ temporary_workspace["fx"] = "Wx"
\* ... and inside a handler the placeholder is there
C29_WitnessPlaceholder ==
    main.pc = "create_end" /\ temporary_workspace[main.file] = "None"

\* no ChangedFile task is waiting on the task bus
NoRetryPending == \A i \in 1..Len(tasks) : tasks[i].type # "ChangedFile"

\* C30 (checked under SpecRetry: no client event after the open, fair event
\* loop and pool): the system eventually stays in a state with no ChangedFile
\* task pending and no compile job queued or running.
C30_RetryChainsTerminate == <>[](NoRetryPending /\ JobsDone)

\* C31: whenever all compile jobs have finished, every entry
\* temporary_workspace[fid] = Some(W) refers to a workspace W that is in the
\* registry as Ready.
C31_NoDanglingTemporary ==
    JobsDone =>
        \A f \in Files :
            temporary_workspace[f] \in Workspaces
                => workspaces[temporary_workspace[f]].st = "Ready"

====
